---- MODULE Spec2Model ----
(***************************************************************************)
(* Model of src/app.py: a Streamlit page that takes an uploaded file or    *)
(* the latest webcam frame, posts it base64-encoded to a remote            *)
(* classifier and writes the answer into one output slot.                  *)
(*                                                                         *)
(* One session is modelled.  A user event makes Streamlit run the script   *)
(* again from the top; the run is cut into the steps between which the     *)
(* frame callback VideoProcessor.recv (another thread) can be scheduled.   *)
(*                                                                         *)
(* Python values are tagged records [k |-> kind, v |-> payload]; a Python  *)
(* str is a sequence of one-character strings, bytes a sequence of         *)
(* numbers 0..255, a list a sequence, a dict a function on its keys.       *)
(***************************************************************************)
EXTENDS Integers, Sequences, FiniteSets, TLC

VARIABLES
    pc,                  \* position of the script run; "idle" between runs
    image_option,        \* the sidebar radio (line 82)
    uploaded_file,       \* the file uploader's value (line 88)
    clicked,             \* what st.sidebar.button("Identify") returns in this run
    button_offered,      \* the Identify button is rendered
    video_processor,     \* webrtc_ctx.video_processor: 0 is None, else the object's id
    processors_created,  \* VideoProcessor objects constructed so far
    holder,              \* video_processor.captured_image (the shared slot)
    received,            \* frames recv has stored into this processor, in order
    captured_image,      \* the script's local of line 111
    image_data,          \* the script's local of lines 91 / 115
    shown_image,         \* what st.sidebar.image was given in this run
    in_flight,           \* the HTTP requests sent and not yet answered
    run_posts,           \* requests.post calls made by this run
    called,              \* identify_plant was entered in this run
    response,            \* identify_plant's local of line 45, NoResponse before
    plant_name,          \* the caller's local of lines 96 / 121
    returned,            \* identify_plant returned (did not raise) in this run
    errors,              \* the st.error messages of this run, in order
    results_placeholder, \* the st.empty() slot of line 85
    fault                \* the exception that ended this run, "" if none

vars == << pc, image_option, uploaded_file, clicked, button_offered,
           video_processor, processors_created, holder, received,
           captured_image, image_data, shown_image, in_flight, run_posts,
           called, response, plant_name, returned, errors,
           results_placeholder, fault >>

-----------------------------------------------------------------------------
(* Bounds of the model *)

MaxFileLen == 3
MaxFrames == 3
MaxProcessors == 2

-----------------------------------------------------------------------------
(* Python values *)

PyNone == [k |-> "none", v |-> 0]
PyStr(s) == [k |-> "str", v |-> s]
PyNum(n) == [k |-> "num", v |-> n]
PyBytes(b) == [k |-> "bytes", v |-> b]
PyList(l) == [k |-> "list", v |-> l]
PyDict(d) == [k |-> "dict", v |-> d]
NdArray(px) == [k |-> "ndarray", v |-> px]
EmptyDict == PyDict(<<>>)

\* Python's truth value of x, as `if prediction:` and `if plant_name` take it
Truthy(x) ==
    CASE x.k = "none" -> FALSE
      [] x.k = "num" -> x.v # 0
      [] x.k = "dict" -> DOMAIN x.v # {}
      [] OTHER -> Len(x.v) > 0

\* dict.get(key, default)
Get(d, key, default) == IF key \in DOMAIN d.v THEN d.v[key] ELSE default

DigitChar == <<"0", "1", "2", "3", "4", "5", "6", "7", "8", "9">>

RECURSIVE Digits(_)
Digits(n) ==
    IF n < 10 THEN << DigitChar[n + 1] >>
    ELSE Digits(n \div 10) \o << DigitChar[(n % 10) + 1] >>

\* what an f-string puts for {x}: str(x)
Format(x) ==
    CASE x.k = "str" -> x.v
      [] x.k = "num" -> Digits(x.v)
      [] OTHER -> <<"N", "o", "n", "e">>

-----------------------------------------------------------------------------
(* base64 *)

B64Alphabet ==
    << "A", "B", "C", "D", "E", "F", "G", "H", "I", "J", "K", "L", "M",
       "N", "O", "P", "Q", "R", "S", "T", "U", "V", "W", "X", "Y", "Z",
       "a", "b", "c", "d", "e", "f", "g", "h", "i", "j", "k", "l", "m",
       "n", "o", "p", "q", "r", "s", "t", "u", "v", "w", "x", "y", "z",
       "0", "1", "2", "3", "4", "5", "6", "7", "8", "9", "+", "/" >>

Sextet(n) == B64Alphabet[(n % 64) + 1]

\* An encoder that drops a last group of one or two bytes instead of padding
\* it: the round trip of C7 must fail on it.
RECURSIVE b64encode_truncating(_)
b64encode_truncating(b) ==
    IF Len(b) < 3 THEN <<>>
    ELSE << Sextet(b[1] \div 4),
            Sextet((b[1] % 4) * 16 + b[2] \div 16),
            Sextet((b[2] % 16) * 4 + b[3] \div 64),
            Sextet(b[3] % 64) >> \o b64encode_truncating(SubSeq(b, 4, Len(b)))

\* base64.b64encode(b).decode('utf-8'): three bytes become four characters,
\* a last group of one or two bytes is padded with "="
RECURSIVE b64encode(_)
b64encode(b) ==
    IF Len(b) = 0 THEN <<>>
    ELSE IF Len(b) = 1 THEN
        << Sextet(b[1] \div 4), Sextet((b[1] % 4) * 16), "=", "=" >>
    ELSE IF Len(b) = 2 THEN
        << Sextet(b[1] \div 4),
           Sextet((b[1] % 4) * 16 + b[2] \div 16),
           Sextet((b[2] % 16) * 4), "=" >>
    ELSE
        << Sextet(b[1] \div 4),
           Sextet((b[1] % 4) * 16 + b[2] \div 16),
           Sextet((b[2] % 16) * 4 + b[3] \div 64),
           Sextet(b[3] % 64) >> \o b64encode(SubSeq(b, 4, Len(b)))

-----------------------------------------------------------------------------
(* The script's conversions *)

\* frame.to_ndarray(format="bgr24"): a new array holding the frame's pixels
to_ndarray(frame) == NdArray(frame)

\* cv2.imencode('.jpg', img)[1].tobytes(): the JPEG of the array.  The
\* compression is not modelled; the bytes are the start-of-image marker, one
\* byte per pixel and the end-of-image marker, so that equal arrays give
\* equal bytes and the bytes are not the array.
imencode(img) == PyBytes(<<255, 216>> \o img.v \o <<255, 217>>)

-----------------------------------------------------------------------------
(* Inputs: what the user and the outside world can supply *)

Upload == "Upload Image"
Capture == "Capture Image"
Options == {Upload, Capture}

ByteValues == {0, 255}

\* the contents a selected file can have: every byte string up to MaxFileLen
FileContents == UNION { [1..n -> ByteValues] : n \in 0..MaxFileLen }

UploadedFile(content) == [k |-> "file", v |-> content]

\* uploaded_file.read()
read(file) == PyBytes(file.v)

\* a video frame is its pixels; two frames that differ in every pixel
F1 == <<10, 10>>
F2 == <<20, 20>>
Frames == {F1, F2}

Rose == << "R", "o", "s", "e" >>
Oak == << "O", "a", "k" >>
NotFound == << "n", "o", "t", " ", "f", "o", "u", "n", "d" >>
Labels == {Rose, Oak, <<>>}
Texts == {NotFound, <<>>}
OtherStatuses == {201, 404}

PlantName(x) == PyDict([plant_name |-> x])
Prediction(pi) == PyDict([plant_identification |-> pi])
Labelled(l) == Prediction(PlantName(PyStr(l)))
Predictions(p) == PyDict([predictions |-> p])

\* the bodies of the documented shape: one prediction, or two with
\* different labels
ExpectedBodies ==
    { Predictions(PyList(<< Labelled(l) >>)) : l \in Labels }
    \cup { Predictions(PyList(<< Labelled(p[1]), Labelled(p[2]) >>)) :
             p \in { q \in Labels \X Labels : q[1] # q[2] } }

NoPredictionBodies ==
    { Predictions(PyList(<<>>)),
      EmptyDict,
      Predictions(PyNone) }

\* keys missing, or a label that is no string
MissingKeyBodies ==
    { Predictions(PyList(<< EmptyDict >>)),
      Predictions(PyList(<< Prediction(EmptyDict) >>)),
      Predictions(PyList(<< Prediction(PlantName(PyNone)) >>)),
      Predictions(PyList(<< Prediction(PlantName(PyNum(5))) >>)) }

\* a body, a predictions value, a prediction or a plant_identification that
\* is not an object
NotObjectBodies ==
    { PyList(<<>>),
      PyStr(Rose),
      PyNone,
      Predictions(PyStr(Rose)),
      Predictions(PyNum(5)),
      Predictions(PyDict([a |-> PyNum(1)])),
      Predictions(PyList(<< PyStr(Rose) >>)),
      Predictions(PyList(<< PyNone >>)),
      Predictions(PyList(<< Prediction(PyStr(Rose)) >>)),
      Predictions(PyList(<< Prediction(PyNone) >>)) }

\* a body that is not JSON at all
NotJson == [k |-> "invalid", v |-> 0]

JsonBodies ==
    ExpectedBodies \cup NoPredictionBodies \cup MissingKeyBodies
    \cup NotObjectBodies \cup {NotJson}

\* response.status_code, response.text, response.json().  The text of a 200
\* answer and the JSON of another answer are not read by the script.
Responses ==
    { [status_code |-> 200, text |-> <<>>, json |-> j] : j \in JsonBodies }
    \cup { [status_code |-> s, text |-> t, json |-> NotJson] :
             s \in OtherStatuses, t \in Texts }

\* no response has been received in this run
NoResponse == [status_code |-> 0, text |-> <<>>, json |-> NotJson]

-----------------------------------------------------------------------------
(* identify_plant *)

ErrorPrefix == << "E", "r", "r", "o", "r", ":", " " >>

ErrorSeparator == << " ", "-", " " >>

NoPredictionsMessage ==
    << "N", "o", " ", "p", "r", "e", "d", "i", "c", "t", "i", "o", "n",
       "s", " ", "f", "o", "u", "n", "d", " ", "i", "n", " ", "t", "h",
       "e", " ", "r", "e", "s", "p", "o", "n", "s", "e", "." >>

ResultPrefix ==
    << "T", "h", "e", " ", "p", "l", "a", "n", "t", " ", "i", "n", " ",
       "t", "h", "e", " ", "i", "m", "a", "g", "e", " ", "i", "s", ":",
       " " >>

NoPlantMessage ==
    << "N", "o", " ", "p", "l", "a", "n", "t", " ", "w", "a", "s", " ",
       "i", "d", "e", "n", "t", "i", "f", "i", "e", "d", "." >>

Url == "https://gemini.googleapis.com/v1/models/gemini-1.5-flash-latest:predict"

\* lines 26-42: the arguments of requests.post
Request(image) ==
    [ method |-> "POST",
      url |-> Url,
      verify |-> FALSE,
      json |-> [ instances |->
                   << [ image |-> [content |-> b64encode(image.v)],
                        features |-> [plant_identification |-> EmptyDict] ] >> ] ]

Return(value, shown) == [raised |-> "", ret |-> value, errors |-> shown]
Raise(exception) == [raised |-> exception, ret |-> PyNone, errors |-> <<>>]

\* prediction[-1]: the last prediction decides; C1 must fail on it.
FirstOf_last(x) ==
    IF x.k = "list" THEN x.v[Len(x.v)] ELSE PyStr(<< x.v[Len(x.v)] >>)

\* prediction[0]
FirstOf(x) == IF x.k = "list" THEN x.v[1] ELSE PyStr(<< x.v[1] >>)

\* lines 51-52, for a truthy `prediction`
FirstLabel(prediction) ==
    IF prediction.k = "dict" THEN Raise("KeyError")
    ELSE IF prediction.k = "num" THEN Raise("TypeError")
    ELSE IF FirstOf(prediction).k # "dict" THEN Raise("AttributeError")
    ELSE LET pi == Get(FirstOf(prediction), "plant_identification", EmptyDict)
         IN  IF pi.k # "dict" THEN Raise("AttributeError")
             ELSE Return(Get(pi, "plant_name", PyNone), <<>>)

\* The else branch without its st.error call; C2 (amended) must fail on it.
NoPredictions_silent == Return(PyNone, <<>>)

\* lines 53-55
NoPredictions == Return(PyNone, << NoPredictionsMessage >>)

\* The message without response.text; C3 must fail on it.
NonSuccess_withoutText(resp) ==
    Return(PyNone, << ErrorPrefix \o Digits(resp.status_code) >>)

\* lines 56-58
NonSuccess(resp) ==
    Return(PyNone,
           << ErrorPrefix \o Digits(resp.status_code)
              \o ErrorSeparator \o resp.text >>)

\* lines 48-58: what identify_plant does with the response: the value it
\* returns and the st.error messages it shows, or the exception it raises
ProcessResponse(resp) ==
    IF resp.status_code = 200 THEN
        IF resp.json = NotJson THEN Raise("JSONDecodeError")
        ELSE IF resp.json.k # "dict" THEN Raise("AttributeError")
        ELSE LET prediction == Get(resp.json, "predictions", PyList(<<>>))
             IN  IF Truthy(prediction) THEN FirstLabel(prediction)
                 ELSE NoPredictions
    ELSE NonSuccess(resp)

\* lines 97 / 122: the text written into the result slot
ResultText(name) ==
    IF Truthy(name) THEN ResultPrefix \o Format(name) ELSE NoPlantMessage

-----------------------------------------------------------------------------
(* The state after construction: the first run of the script has begun, with
   the radio on its first option and nothing selected *)

Init ==
    /\ pc = "upload"
    /\ image_option = Upload
    /\ uploaded_file = PyNone
    /\ clicked = FALSE
    /\ button_offered = FALSE
    /\ video_processor = 0
    /\ processors_created = 0
    /\ holder = PyNone
    /\ received = <<>>
    /\ captured_image = PyNone
    /\ image_data = PyNone
    /\ shown_image = PyNone
    /\ in_flight = <<>>
    /\ run_posts = 0
    /\ called = FALSE
    /\ response = NoResponse
    /\ plant_name = PyNone
    /\ returned = FALSE
    /\ errors = <<>>
    /\ results_placeholder = PyNone
    /\ fault = ""

\* A user event makes the script run again from the top: every element of
\* the page is rebuilt, lines 81-87 read the radio, make the empty result
\* slot and take the branch.
StartRun(option, file, click) ==
    /\ image_option' = option
    /\ uploaded_file' = file
    /\ clicked' = click
    /\ button_offered' = FALSE
    /\ captured_image' = PyNone
    /\ image_data' = PyNone
    /\ shown_image' = PyNone
    /\ run_posts' = 0
    /\ called' = FALSE
    /\ response' = NoResponse
    /\ plant_name' = PyNone
    /\ returned' = FALSE
    /\ errors' = <<>>
    /\ results_placeholder' = PyNone
    /\ fault' = ""
    /\ pc' = IF option = Upload THEN "upload" ELSE "webrtc"
    /\ UNCHANGED << video_processor, processors_created, holder, received,
                    in_flight >>

\* the script's run ends; the page waits for the next event
EndRun == pc' = "idle"

-----------------------------------------------------------------------------
(* User events *)

ChooseOption(option) ==
    /\ pc = "idle"
    /\ option # image_option
    /\ StartRun(option, uploaded_file, FALSE)

SelectFile(content) ==
    /\ pc = "idle"
    /\ image_option = Upload
    /\ UploadedFile(content) # uploaded_file
    /\ StartRun(image_option, UploadedFile(content), FALSE)

RemoveFile ==
    /\ pc = "idle"
    /\ image_option = Upload
    /\ uploaded_file # PyNone
    /\ StartRun(image_option, PyNone, FALSE)

\* the Identify button can be pressed only where it is rendered
ClickIdentify ==
    /\ pc = "idle"
    /\ button_offered
    /\ StartRun(image_option, uploaded_file, TRUE)

\* the video widget changes state (start, stop, a track arrives)
StreamEvent ==
    /\ pc = "idle"
    /\ image_option = Capture
    /\ StartRun(image_option, uploaded_file, FALSE)

-----------------------------------------------------------------------------
(* The frame callback, on the streaming component's thread *)

\* lines 72-73
VideoProcessor ==
    /\ video_processor' = processors_created + 1
    /\ processors_created' = processors_created + 1
    /\ holder' = PyNone
    /\ received' = <<>>

\* recv keeping the frame it already has (first write wins); C5 must fail
\* on it.
recv_keepFirst(frame) ==
    /\ video_processor # 0
    /\ Len(received) < MaxFrames
    /\ holder' = IF holder = PyNone THEN to_ndarray(frame) ELSE holder
    /\ received' = Append(received, frame)
    /\ UNCHANGED << pc, image_option, uploaded_file, clicked, button_offered,
                    video_processor, processors_created, captured_image,
                    image_data, shown_image, in_flight, run_posts, called,
                    response, plant_name, returned, errors,
                    results_placeholder, fault >>

\* lines 75-78: one reference assignment
recv(frame) ==
    /\ video_processor # 0
    /\ Len(received) < MaxFrames
    /\ holder' = to_ndarray(frame)
    /\ received' = Append(received, frame)
    /\ UNCHANGED << pc, image_option, uploaded_file, clicked, button_offered,
                    video_processor, processors_created, captured_image,
                    image_data, shown_image, in_flight, run_posts, called,
                    response,
                    plant_name, returned, errors, results_placeholder, fault >>

-----------------------------------------------------------------------------
(* The script run *)

\* The upload branch with the button outside the `is not None` test, the
\* bytes of no file being empty; C4 must fail on it.
UploadBranch_unguarded ==
    /\ pc = "upload"
    /\ image_data' = IF uploaded_file # PyNone THEN read(uploaded_file)
                     ELSE PyBytes(<<>>)
    /\ shown_image' = image_data'
    /\ button_offered' = TRUE
    /\ pc' = IF clicked THEN "call" ELSE "idle"
    /\ UNCHANGED << image_option, uploaded_file, clicked, video_processor,
                    processors_created, holder, received, captured_image,
                    in_flight, run_posts, called, response, plant_name,
                    returned, errors, results_placeholder, fault >>

\* lines 88-95
UploadBranch ==
    /\ pc = "upload"
    /\ IF uploaded_file # PyNone
       THEN /\ image_data' = read(uploaded_file)
            /\ shown_image' = read(uploaded_file)
            /\ button_offered' = TRUE
            /\ pc' = IF clicked THEN "call" ELSE "idle"
       ELSE /\ EndRun
            /\ UNCHANGED << image_data, shown_image, button_offered >>
    /\ UNCHANGED << image_option, uploaded_file, clicked, video_processor,
                    processors_created, holder, received, captured_image,
                    in_flight, run_posts, called, response, plant_name, returned,
                    errors, results_placeholder, fault >>

\* lines 103-107: the context the widget hands back has the processor it
\* had, a newly made one once the stream plays, or none once it stopped
webrtc_streamer ==
    /\ pc = "webrtc"
    /\ \/ UNCHANGED << video_processor, processors_created, holder, received >>
       \/ /\ video_processor = 0
          /\ processors_created < MaxProcessors
          /\ VideoProcessor
       \/ /\ video_processor # 0
          /\ video_processor' = 0
          /\ holder' = PyNone
          /\ received' = <<>>
          /\ UNCHANGED processors_created
    /\ pc' = "check"
    /\ UNCHANGED << image_option, uploaded_file, clicked, button_offered,
                    captured_image, image_data, shown_image, in_flight,
                    run_posts, called, response, plant_name, returned, errors,
                    results_placeholder, fault >>

\* line 110
CheckCaptured ==
    /\ pc = "check"
    /\ pc' = IF video_processor # 0 /\ holder # PyNone THEN "read" ELSE "idle"
    /\ UNCHANGED << image_option, uploaded_file, clicked, button_offered,
                    video_processor, processors_created, holder, received,
                    captured_image, image_data, shown_image, in_flight,
                    run_posts, called, response, plant_name, returned, errors,
                    results_placeholder, fault >>

\* line 111
ReadCaptured ==
    /\ pc = "read"
    /\ captured_image' = holder
    /\ pc' = "encode"
    /\ UNCHANGED << image_option, uploaded_file, clicked, button_offered,
                    video_processor, processors_created, holder, received,
                    image_data, shown_image, in_flight, run_posts, called,
                    response,
                    plant_name, returned, errors, results_placeholder, fault >>

\* Line 114 reading webrtc_ctx.video_processor.captured_image again instead
\* of the local; C10 must fail on it.
EncodeCaptured_reread ==
    /\ pc = "encode"
    /\ image_data' = imencode(holder)
    /\ shown_image' = captured_image
    /\ button_offered' = TRUE
    /\ pc' = IF clicked THEN "call" ELSE "idle"
    /\ UNCHANGED << image_option, uploaded_file, clicked, video_processor,
                    processors_created, holder, received, captured_image,
                    in_flight, run_posts, called, response, plant_name,
                    returned, errors, results_placeholder, fault >>

\* lines 114-120; cv2.imencode raises on None
EncodeCaptured ==
    /\ pc = "encode"
    /\ IF captured_image # PyNone
       THEN /\ image_data' = imencode(captured_image)
            /\ shown_image' = captured_image
            /\ button_offered' = TRUE
            /\ pc' = IF clicked THEN "call" ELSE "idle"
            /\ UNCHANGED fault
       ELSE /\ fault' = "cv2.error"
            /\ EndRun
            /\ UNCHANGED << image_data, shown_image, button_offered >>
    /\ UNCHANGED << image_option, uploaded_file, clicked, video_processor,
                    processors_created, holder, received, captured_image,
                    in_flight, run_posts, called, response, plant_name,
                    returned, errors, results_placeholder >>

\* lines 96 / 121 enter identify_plant; lines 26-45 build the body and post it
Post ==
    /\ pc = "call"
    /\ called' = TRUE
    /\ in_flight' = Append(in_flight, Request(image_data))
    /\ run_posts' = run_posts + 1
    /\ pc' = "inflight"
    /\ UNCHANGED << image_option, uploaded_file, clicked, button_offered,
                    video_processor, processors_created, holder, received,
                    captured_image, image_data, shown_image, response,
                    plant_name,
                    returned, errors, results_placeholder, fault >>

\* identify_plant posting once more after an answer other than 200; C6 must
\* fail on it.
Respond_retry(answer) ==
    /\ pc = "inflight"
    /\ response' = answer
    /\ IF answer.status_code # 200 /\ run_posts < 2
       THEN /\ in_flight' = Append(Tail(in_flight), Request(image_data))
            /\ run_posts' = run_posts + 1
            /\ UNCHANGED << pc, plant_name, returned, errors,
                            results_placeholder, fault >>
       ELSE /\ in_flight' = Tail(in_flight)
            /\ plant_name' = ProcessResponse(answer).ret
            /\ returned' = (ProcessResponse(answer).raised = "")
            /\ errors' = errors \o ProcessResponse(answer).errors
            /\ results_placeholder' =
                 IF ProcessResponse(answer).raised = ""
                 THEN PyStr(ResultText(ProcessResponse(answer).ret))
                 ELSE results_placeholder
            /\ fault' = ProcessResponse(answer).raised
            /\ EndRun
            /\ UNCHANGED run_posts
    /\ UNCHANGED << image_option, uploaded_file, clicked, button_offered,
                    video_processor, processors_created, holder, received,
                    captured_image, image_data, shown_image, called >>

\* requests.post returns `response`; lines 48-58 process it and lines
\* 97 / 122 write the result slot, unless identify_plant raised
Respond(answer) ==
    /\ pc = "inflight"
    /\ in_flight' = Tail(in_flight)
    /\ response' = answer
    /\ LET outcome == ProcessResponse(answer)
       IN  IF outcome.raised = ""
           THEN /\ plant_name' = outcome.ret
                /\ returned' = TRUE
                /\ errors' = errors \o outcome.errors
                /\ results_placeholder' = PyStr(ResultText(outcome.ret))
                /\ UNCHANGED fault
           ELSE /\ fault' = outcome.raised
                /\ UNCHANGED << plant_name, returned, errors,
                                results_placeholder >>
    /\ EndRun
    /\ UNCHANGED << image_option, uploaded_file, clicked, button_offered,
                    video_processor, processors_created, holder, received,
                    captured_image, image_data, shown_image, run_posts,
                    called >>

\* requests.post raises (DNS, connection refused, TLS): nothing catches it
TransportFailure ==
    /\ pc = "inflight"
    /\ in_flight' = Tail(in_flight)
    /\ fault' = "ConnectionError"
    /\ EndRun
    /\ UNCHANGED << image_option, uploaded_file, clicked, button_offered,
                    video_processor, processors_created, holder, received,
                    captured_image, image_data, shown_image, run_posts,
                    called, response, plant_name, returned, errors,
                    results_placeholder >>

-----------------------------------------------------------------------------

Next ==
    \/ \E option \in Options : ChooseOption(option)
    \/ \E content \in FileContents : SelectFile(content)
    \/ RemoveFile
    \/ ClickIdentify
    \/ StreamEvent
    \/ \E frame \in Frames : recv(frame)
    \/ UploadBranch
    \/ webrtc_streamer
    \/ CheckCaptured
    \/ ReadCaptured
    \/ EncodeCaptured
    \/ Post
    \/ \E answer \in Responses : Respond(answer)
    \/ TransportFailure

Spec == Init /\ [][Next]_vars

-----------------------------------------------------------------------------
(* Properties *)

\* the run's HTTP call has returned and the run is over
Answered == pc = "idle" /\ response # NoResponse

\* json is {"predictions": [{"plant_identification": {"plant_name": <str>}}, ...]}
HasLabel(json) ==
    /\ json.k = "dict"
    /\ "predictions" \in DOMAIN json.v
    /\ json.v.predictions.k = "list"
    /\ Len(json.v.predictions.v) > 0
    /\ json.v.predictions.v[1].k = "dict"
    /\ "plant_identification" \in DOMAIN json.v.predictions.v[1].v
    /\ json.v.predictions.v[1].v.plant_identification.k = "dict"
    /\ "plant_name" \in DOMAIN json.v.predictions.v[1].v.plant_identification.v
    /\ json.v.predictions.v[1].v.plant_identification.v.plant_name.k = "str"

LabelOf(json) == json.v.predictions.v[1].v.plant_identification.v.plant_name

\* sub occurs in text as a contiguous piece
Contains(text, sub) ==
    \E i \in 0..(Len(text) - Len(sub)) : SubSeq(text, i + 1, i + Len(sub)) = sub

\* C1: a 200 answer whose first prediction carries the label L makes
\* identify_plant return exactly L, whatever the later predictions say, and
\* show no error message.
C1_FirstPredictionDecides ==
    (Answered /\ response.status_code = 200 /\ HasLabel(response.json))
        => /\ returned
           /\ plant_name = LabelOf(response.json)
           /\ errors = <<>>
           /\ fault = ""

C1_Witness ==
    /\ Answered
    /\ response.status_code = 200
    /\ response.json = Predictions(PyList(<< Labelled(Rose), Labelled(Oak) >>))
    /\ plant_name = PyStr(Rose)

EmptyPredictions ==
    /\ Answered
    /\ response.status_code = 200
    /\ response.json = Predictions(PyList(<<>>))

\* C2 as the specification states it: a 200 answer with an empty predictions
\* list gives None and no error message is shown, only an informational one.
C2_EmptyIsNotAnError ==
    EmptyPredictions
        => /\ returned
           /\ plant_name = PyNone
           /\ errors = <<>>
           /\ results_placeholder # PyNone

\* C2, amended: a 200 answer with an empty predictions list gives None, and
\* it is reported through st.error: the one error message of the run is
\* "No predictions found in the response."; the result slot then holds the
\* plain text "No plant was identified.".
C2_EmptyIsReportedAsError ==
    EmptyPredictions
        => /\ returned
           /\ plant_name = PyNone
           /\ errors = << NoPredictionsMessage >>
           /\ results_placeholder = PyStr(NoPlantMessage)
           /\ fault = ""

C2_Witness ==
    /\ EmptyPredictions
    /\ errors = << NoPredictionsMessage >>
    /\ image_option = Capture

\* C3: a status S other than 200 with body text T makes identify_plant
\* return None and show one error message that contains S and T; the run ends
\* without a fault and Identify can be pressed again.
C3_StatusAndTextReported ==
    (Answered /\ response.status_code # 200)
        => /\ returned
           /\ plant_name = PyNone
           /\ Len(errors) = 1
           /\ Contains(errors[1], Digits(response.status_code))
           /\ Contains(errors[1], response.text)
           /\ fault = ""
           /\ ENABLED ClickIdentify

C3_Witness ==
    /\ Answered
    /\ response.status_code = 404
    /\ response.text = NotFound
    /\ errors = << ErrorPrefix \o <<"4", "0", "4">> \o ErrorSeparator \o NotFound >>

\* no file is selected (upload), or no frame has been captured (capture)
NoImageAvailable ==
    \/ image_option = Upload /\ uploaded_file = PyNone
    \/ image_option = Capture /\ (video_processor = 0 \/ holder = PyNone)

\* C4: where no image is available the Identify button is not offered and
\* this run has sent no request; a request is in flight only where image
\* bytes are available.
C4_NoImageNoRequest ==
    /\ NoImageAvailable
         => /\ ~button_offered
            /\ run_posts = 0
            /\ in_flight = <<>>
            /\ pc \notin {"call", "inflight"}
    /\ (in_flight # <<>> \/ run_posts > 0)
         => image_data.k = "bytes" /\ ~NoImageAvailable

\* Identify was pressed, but by the time the script looked the processor
\* was gone
C4_Witness ==
    /\ pc = "idle"
    /\ clicked
    /\ image_option = Capture
    /\ video_processor = 0
    /\ processors_created > 0
    /\ run_posts = 0

Last(s) == s[Len(s)]

\* C5: the holder always has the whole frame recv stored last, and the read
\* of line 111 yields that frame, wherever recv is scheduled.
C5_LastWriteWins ==
    [][ /\ received' # <<>> => holder' = NdArray(Last(received'))
        /\ (pc = "read" /\ pc' = "encode")
             => received # <<>> /\ captured_image' = NdArray(Last(received)) ]_vars

C5_Witness ==
    /\ pc = "encode"
    /\ received = << F1, F2 >>
    /\ captured_image = NdArray(F2)

\* C6: a run sends at most one request and one that entered identify_plant
\* sent exactly one, whatever came back; a request is sent only in a run
\* started by pressing Identify, and at most one is in flight.
C6_OnePostPerIdentify ==
    /\ run_posts <= 1
    /\ Len(in_flight) <= 1
    /\ in_flight # <<>> <=> pc = "inflight"
    /\ called => run_posts = 1
    /\ run_posts > 0 => clicked
    /\ (pc = "idle" /\ clicked /\ button_offered) => called /\ run_posts = 1

C6_Witness ==
    /\ Answered
    /\ response.status_code = 404
    /\ run_posts = 1
    /\ in_flight = <<>>

B64Value(c) == CHOOSE i \in 0..63 : B64Alphabet[i + 1] = c

\* the standard decoding: four characters give three bytes, "=" marks the
\* bytes a last group does not have
RECURSIVE b64decode(_)
b64decode(s) ==
    IF Len(s) = 0 THEN <<>>
    ELSE LET a == B64Value(s[1])
             b == B64Value(s[2])
         IN  IF s[3] = "=" THEN << a * 4 + b \div 16 >>
             ELSE LET c == B64Value(s[3])
                  IN  IF s[4] = "="
                      THEN << a * 4 + b \div 16, (b % 16) * 16 + c \div 4 >>
                      ELSE << a * 4 + b \div 16, (b % 16) * 16 + c \div 4,
                              (c % 4) * 64 + B64Value(s[4]) >>
                           \o b64decode(SubSeq(s, 5, Len(s)))

Content(request) == request.json.instances[1].image.content

\* C7: the content of every request sent is a base64 text (groups of four
\* characters) that decodes to exactly the image bytes given to
\* identify_plant, which in upload mode are the file's bytes.
C7_Base64RoundTrip ==
    \A i \in 1..Len(in_flight) :
        /\ Len(Content(in_flight[i])) % 4 = 0
        /\ b64decode(Content(in_flight[i])) = image_data.v
        /\ image_option = Upload => image_data.v = uploaded_file.v

C7_Witness ==
    /\ in_flight # <<>>
    /\ image_data.v = << 255, 0 >>
    /\ Content(in_flight[1]) = << "/", "w", "A", "=" >>

\* the shapes C8 lists: predictions missing or empty, a first prediction
\* without plant_identification, a plant_identification without plant_name,
\* a body or a prediction that is not an object
ListedShapes ==
    NoPredictionBodies
    \cup { Predictions(PyList(<< EmptyDict >>)),
           Predictions(PyList(<< Prediction(EmptyDict) >>)) }
    \cup NotObjectBodies

\* C8: a 200 answer of any of these shapes makes identify_plant return None;
\* it does not raise.
C8_OtherShapesDegrade ==
    (Answered /\ response.status_code = 200 /\ response.json \in ListedShapes)
        => returned /\ plant_name = PyNone /\ fault = ""

\* C9: once the HTTP call of a run has returned, the result slot holds
\* "The plant in the image is: L" if identify_plant returned a non-empty
\* label L and "No plant was identified." otherwise.
C9_SlotHoldsResult ==
    Answered
        => results_placeholder =
             PyStr(IF returned /\ plant_name.k = "str" /\ plant_name.v # <<>>
                   THEN ResultPrefix \o plant_name.v
                   ELSE NoPlantMessage)

\* C10: a processor's captured_image starts as None and, once a frame is
\* stored, is never None while that processor lasts; so the value read at
\* line 111 is a frame, and the image shown and the JPEG bytes encoded and
\* sent are those of that one read, whatever recv stores meanwhile.
C10_OneReadFeedsTheRun ==
    [][ /\ video_processor' \notin {0, video_processor} => holder' = PyNone
        /\ (video_processor' = video_processor /\ holder # PyNone)
             => holder' # PyNone
        /\ pc' = "encode" => captured_image'.k = "ndarray"
        /\ (image_option' = Capture /\ button_offered')
             => /\ shown_image' = captured_image'
                /\ image_data' = imencode(captured_image')
        /\ (image_option' = Capture /\ in_flight' # <<>>)
             => Content(in_flight'[1]) = b64encode(imencode(captured_image').v)
      ]_vars

\* a request is in flight for the frame read while the holder has moved on
C10_Witness ==
    /\ image_option = Capture
    /\ pc = "inflight"
    /\ captured_image = NdArray(F1)
    /\ holder = NdArray(F2)
    /\ b64decode(Content(in_flight[1])) = << 255, 216, 10, 10, 255, 217 >>

====
